---- MODULE Spec2Model ----
(***************************************************************************)
(* Clip export pipeline of the video-clipping application.                 *)
(*                                                                         *)
(* Two parts share this module:                                            *)
(*   - the export-clip edge function (one handler invocation per request), *)
(*     acting on the clips table, the /tmp directory, the ffmpeg child     *)
(*     process and the clips storage bucket            (specification Spec)*)
(*   - the processing_jobs table and the writes made to it                 *)
(*                                                (specification JobSpec)  *)
(***************************************************************************)
EXTENDS Integers, Sequences, FiniteSets, TLC

\* ---------------------------------------------------------------- bounds
NumRequests == 2          \* handler invocations in flight
NumClips == 2             \* rows the clips table can hold
MaxTime == 1              \* distinct values Date.now() returns

NumJobs == 2              \* rows the processing_jobs table can hold
NumOutputs == 2           \* distinct output locators

NumVideos == 1            \* videos analysis is requested for
NumAnalysisJobs == 1      \* processing_jobs rows of type 'clip_generation'

NumUsers == 2             \* users who insert videos
MaxVideos == 3            \* videos a user inserts in the month

NumCallers == 2           \* calls of getBackendUrl
MaxMinutes == 6           \* minutes the clock runs

MaxAnswer == 2            \* clips in the answer of the model

NumFiles == 3             \* files of one drop

NumAccounts == 3          \* accounts with a profile

Requests == 1..NumRequests
JobIds == 1..NumJobs
OutputLocators == 1..NumOutputs
ClipIds == 1..NumClips
VideoIds == 1..NumVideos
AnalysisJobs == 1..NumAnalysisJobs
Users == 1..NumUsers
Callers == 1..NumCallers
Files == 1..NumFiles
Accounts == 1..NumAccounts
Times == 0..MaxTime

\* ------------------------------------------------------- program constants
MinClipDuration == 15
MaxClipDuration == 60

\* Configured size of the transcoder worker pool.
WorkerPoolSize == 1

\* The segments ClipEditorPage offers (generateSuggestedClips).
SuggestedClips ==
    { [startTime |-> 10, endTime |-> 40],
      [startTime |-> 120, endTime |-> 180],
      [startTime |-> 240, endTime |-> 300] }

\* Durations of the source video (videos.duration), seconds.
VideoDurations == {100, 600}

NoClip == [exists |-> FALSE, start_time |-> 0, end_time |-> 0, duration |-> 0,
           status |-> "none", file_path |-> FALSE]

NoPath == <<"none", 0>>
TmpPaths == {"input", "output"} \X Times

VARIABLES
    videoDuration,  \* videos.duration of the source video
    clips,          \* clips table: ClipIds -> row
    pc,             \* position of each handler invocation
    reqClip,        \* clipId of the request body
    inputPath,      \* the invocation's inputPath
    outputPath,     \* the invocation's outputPath
    tmp,            \* /tmp: path -> 0 (absent) or the request that wrote it
    child,          \* ffmpeg child process of the invocation
    overdue,        \* the timeout window of the running child has elapsed
    started,        \* the invocation has written status 'processing'
    foreign,        \* the invocation consumed a temp file of another one
    err,            \* error.message of the 500 response
    stored,         \* objects of storage bucket 'clips' (by clip id)
    now             \* Date.now()

VARIABLES
    jobs,           \* processing_jobs table: JobIds -> row
    firstSignal,    \* first completion signal delivered to a live job
    lastDup         \* job that last got a completion signal after its first

hvars == <<videoDuration, clips, pc, reqClip, inputPath, outputPath, tmp, child,
           overdue, started, foreign, err, stored, now>>

jvars == <<jobs, firstSignal, lastDup>>

VARIABLES
    apc,            \* ai-analyze-clips: position of each invocation
    avideo,         \* videoId of the request
    notified,       \* outcome of the insert into notifications
    credits         \* usage_tracking.ai_credits_used of the user

avars == <<apc, avideo, notified, credits>>

VARIABLES
    gstage,         \* geometry: "input", "resolved" or "filtered"
    gratio,         \* clip.aspect_ratio
    gsrc,           \* width and height of the source video
    gimpl,          \* which of the two command builders runs
    gdims,          \* the dimensions resolved for gratio
    gpic            \* the output frame and the picture inside it

gvars == <<gstage, gratio, gsrc, gimpl, gdims, gpic>>

VARIABLES
    swindow,        \* start_time and end_time of the clip, in milliseconds
    captions,       \* clip.captions
    srendered,      \* the command has been built
    subtitles       \* the subtitles filter and the cues of its file

svars == <<swindow, captions, srendered, subtitles>>

VARIABLES
    loading,            \* useAuth().loading
    user,               \* useAuth().user is set
    profile,            \* useAuth().profile
    requireSuperAdmin,  \* prop of the route
    isAuthorized,       \* useState<boolean | null>: "null", "true", "false"
    effectDue,          \* a dependency of the effect changed since it ran
    view                \* what the last render returned

rvars == <<loading, user, profile, requireSuperAdmin, isAuthorized, effectDue,
           view>>

VARIABLES
    gateSettings,       \* useSettings().settings is loaded
    gateFlag,           \* settings.features[feature]: "on", "off", "absent"
    gateProfile,        \* profile.subscription_tier, "unset", or "null"
    gateUsage,          \* usage[counter] of the month, or -1: not loaded
    gateFeature,        \* prop feature of FeatureGate
    gateLimitType,      \* prop limitType of LimitGate
    gateFallback,       \* a fallback prop is given
    gatePrompt,         \* prop showUpgradePrompt
    gateView            \* what the gate returned

tvars == <<gateSettings, gateFlag, gateProfile, gateUsage, gateFeature,
           gateLimitType, gateFallback, gatePrompt, gateView>>

VARIABLES
    usageRows,          \* usage_tracking row of each user for the month
    profileStorage,     \* profiles.storage_used of each user
    videosInserted,     \* rows inserted into videos, per user
    bytesInserted       \* sum of their file_size, per user

uvars == <<usageRows, profileStorage, videosInserted, bytesInserted>>

VARIABLES
    cachedBackendUrl,   \* module variable; "" stands for null
    lastFetchTime,      \* module variable, in minutes
    urlClock,           \* Date.now(), in minutes
    dbUrl,              \* value of the active backend_url row, "" if none
    envUrl,             \* import.meta.env.VITE_BACKEND_URL, "" if unset
    hostLocal,          \* window.location.hostname is localhost
    callPc,             \* position of each call of getBackendUrl
    callResult,         \* what the call returned
    callSource,         \* where the returned value came from
    cleared             \* clearBackendUrlCache ran and no call started since

bvars == <<cachedBackendUrl, lastFetchTime, urlClock, dbUrl, envUrl, hostLocal,
           callPc, callResult, callSource, cleared>>

VARIABLES
    optMin,             \* options.minDuration, -1 if absent
    optMax,             \* options.maxDuration, -1 if absent
    analysisDuration,   \* videoDuration passed to analyzeForClips
    answer,             \* the clips of the model's answer
    analysed,           \* analyzeForClips has returned
    validatedClips      \* what it returned

cvars == <<optMin, optMax, analysisDuration, answer, analysed, validatedClips>>

VARIABLES
    filePc,             \* where onDrop is with each accepted file
    uploadingFiles      \* the entry of each file in state uploadingFiles

fvars == <<filePc, uploadingFiles>>

VARIABLES
    dbProfiles,         \* table profiles: role and is_active of each account
    dbCall,             \* the database call made last
    settingsWriters     \* accounts whose write of system_settings went through

pvars == <<dbProfiles, dbCall, settingsWriters>>

yvars == <<tvars, uvars, bvars, cvars, fvars, pvars>>

basevars == <<hvars, jvars, avars, gvars, svars, rvars>>

xvars == <<avars, gvars, svars, rvars, yvars>>

vars == <<hvars, jvars, xvars>>

\* ------------------------------------------------------------------ Init
HandlerInit ==
    /\ videoDuration \in VideoDurations
    /\ clips = [c \in ClipIds |-> NoClip]
    /\ pc = [r \in Requests |-> "idle"]
    /\ reqClip = [r \in Requests |-> 0]
    /\ inputPath = [r \in Requests |-> NoPath]
    /\ outputPath = [r \in Requests |-> NoPath]
    /\ tmp = [p \in TmpPaths |-> 0]
    /\ child = [r \in Requests |-> "none"]
    /\ overdue = [r \in Requests |-> FALSE]
    /\ started = [r \in Requests |-> FALSE]
    /\ foreign = [r \in Requests |-> FALSE]
    /\ err = [r \in Requests |-> "none"]
    /\ stored = {}
    /\ now = 0

\* An absent row of processing_jobs.
NoJob == [status |-> "none", clip_id |-> 0, progress |-> 0,
          error_message |-> "none", metadata |-> 0,
          started_at |-> FALSE, completed_at |-> FALSE]

NoSignal == [status |-> "none", metadata |-> 0, error_message |-> "none"]

JobInit ==
    /\ jobs = [j \in JobIds |-> NoJob]
    /\ firstSignal = [j \in JobIds |-> NoSignal]
    /\ lastDup = 0

AiInit ==
    /\ apc = [r \in Requests |-> "idle"]
    /\ avideo = [r \in Requests |-> 0]
    /\ notified = [r \in Requests |-> "none"]
    /\ credits = 0

NoDims == <<0, 0>>
NoPic == [outW |-> 0, outH |-> 0, w |-> 0, h |-> 0, x |-> 0, y |-> 0]

\* No clip is being rendered.
GeomIdle ==
    /\ gstage = "input"
    /\ gratio = "16:9"
    /\ gsrc = <<1920, 1080>>
    /\ gimpl = "none"
    /\ gdims = NoDims
    /\ gpic = NoPic

NoCaptions == [supplied |-> FALSE, enabled |-> FALSE, words |-> <<>>]
NoSubtitles == [filter |-> FALSE, cues |-> <<>>]

\* No command is being built.
SubIdle ==
    /\ swindow = <<0, 0>>
    /\ captions = NoCaptions
    /\ srendered = FALSE
    /\ subtitles = NoSubtitles

NoProfile == [exists |-> FALSE, is_active |-> FALSE, role |-> "user"]

\* The route as mounted, while auth is loading.
RouteIdle ==
    /\ loading = TRUE
    /\ user = FALSE
    /\ profile = NoProfile
    /\ requireSuperAdmin = FALSE
    /\ isAuthorized = "null"
    /\ effectDue = TRUE
    /\ view = "spinner"

\* No gate is rendered.
GateIdle ==
    /\ gateSettings = FALSE
    /\ gateFlag = "absent"
    /\ gateProfile = "null"
    /\ gateUsage = -1
    /\ gateFeature = "youtube_import"
    /\ gateLimitType = "videos_uploaded"
    /\ gateFallback = FALSE
    /\ gatePrompt = TRUE
    /\ gateView = "unrendered"

NoUsageRow == [exists |-> FALSE, videos_uploaded |-> 0, storage_used |-> 0]

\* No usage_tracking row for the month, nothing inserted.
TrackIdle ==
    /\ usageRows = [u \in Users |-> NoUsageRow]
    /\ profileStorage = [u \in Users |-> 0]
    /\ videosInserted = [u \in Users |-> 0]
    /\ bytesInserted = [u \in Users |-> 0]

\* The module as loaded, no call made.
UrlIdle ==
    /\ cachedBackendUrl = ""
    /\ lastFetchTime = 0
    /\ urlClock = 0
    /\ dbUrl = ""
    /\ envUrl = ""
    /\ hostLocal = FALSE
    /\ callPc = [c \in Callers |-> "idle"]
    /\ callResult = [c \in Callers |-> ""]
    /\ callSource = [c \in Callers |-> "none"]
    /\ cleared = FALSE

\* No analysis requested.
ClipsIdle ==
    /\ optMin = -1
    /\ optMax = -1
    /\ analysisDuration = 0
    /\ answer = <<>>
    /\ analysed = FALSE
    /\ validatedClips = <<>>

NoEntry == [status |-> "none", progress |-> 0, videoId |-> FALSE]

\* Files dropped, none taken up yet.
UploadIdle ==
    /\ filePc = [f \in Files |-> "pending"]
    /\ uploadingFiles = [f \in Files |-> NoEntry]

NoCall == [fn |-> "none", caller |-> 0, target |-> 0, raised |-> FALSE]

\* The default super admin of the migration, every other account a user.
RoleIdle ==
    /\ dbProfiles = [a \in Accounts |->
                        [role |-> IF a = 1 THEN "super_admin" ELSE "user",
                         is_active |-> TRUE]]
    /\ dbCall = NoCall
    /\ settingsWriters = {}

YIdle == GateIdle /\ TrackIdle /\ UrlIdle /\ ClipsIdle /\ UploadIdle /\ RoleIdle

XInit == AiInit /\ GeomIdle /\ SubIdle /\ RouteIdle /\ YIdle

\* Everything outside the part a specification is about, at rest.
BaseIdle ==
    /\ HandlerInit /\ videoDuration = 600
    /\ JobInit
    /\ AiInit /\ GeomIdle /\ SubIdle /\ RouteIdle

Init == HandlerInit /\ JobInit /\ XInit

\* --------------------------------------------------------- clips table
\* ClipEditorPage.handleCreateClip: insert of a suggested segment, no checks.
handleCreateClip(c, segment) ==
    /\ ~clips[c].exists
    /\ clips' = [clips EXCEPT ![c] =
                   [exists |-> TRUE,
                    start_time |-> segment.startTime,
                    end_time |-> segment.endTime,
                    duration |-> segment.endTime - segment.startTime,
                    status |-> "draft",
                    file_path |-> FALSE]]
    /\ UNCHANGED <<videoDuration, pc, reqClip, inputPath, outputPath, tmp, child,
                   overdue, started, foreign, err, stored, now>>
    /\ UNCHANGED <<jvars, xvars>>

\* ------------------------------------------------- export-clip handler
\* throw inside the try block: control goes to the catch clause, which logs
\* and answers 500; it writes nothing else.
Throw(r, message) ==
    /\ pc' = [pc EXCEPT ![r] = "err"]
    /\ err' = [err EXCEPT ![r] = message]

\* POST { clipId }
Receive(r, c) ==
    /\ pc[r] = "idle"
    /\ pc' = [pc EXCEPT ![r] = "start"]
    /\ reqClip' = [reqClip EXCEPT ![r] = c]
    /\ UNCHANGED <<videoDuration, clips, inputPath, outputPath, tmp, child,
                   overdue, started, foreign, err, stored, now>>
    /\ UNCHANGED <<jvars, xvars>>

\* select clip; if (!clip) throw new Error('Clip not found')
LoadClip(r) ==
    /\ pc[r] = "start"
    /\ IF clips[reqClip[r]].exists
       THEN pc' = [pc EXCEPT ![r] = "loaded"] /\ UNCHANGED err
       ELSE Throw(r, "Clip not found")
    /\ UNCHANGED <<videoDuration, clips, reqClip, inputPath, outputPath, tmp,
                   child, overdue, started, foreign, stored, now>>
    /\ UNCHANGED <<jvars, xvars>>

\* update({ status: 'processing' }).eq('id', clipId)
SetProcessing(r) ==
    /\ pc[r] = "loaded"
    /\ clips' = [clips EXCEPT ![reqClip[r]].status = "processing"]
    /\ started' = [started EXCEPT ![r] = TRUE]
    /\ pc' = [pc EXCEPT ![r] = "download"]
    /\ UNCHANGED <<videoDuration, reqClip, inputPath, outputPath, tmp, child,
                   overdue, foreign, err, stored, now>>
    /\ UNCHANGED <<jvars, xvars>>

\* storage.from('videos').download(...); if (!videoBlob) throw
Download(r, ok) ==
    /\ pc[r] = "download"
    /\ IF ok
       THEN pc' = [pc EXCEPT ![r] = "write"] /\ UNCHANGED err
       ELSE Throw(r, "Failed to download video")
    /\ UNCHANGED <<videoDuration, clips, reqClip, inputPath, outputPath, tmp,
                   child, overdue, started, foreign, stored, now>>
    /\ UNCHANGED <<jvars, xvars>>

\* inputPath, outputPath from Date.now(); Deno.writeFile(inputPath, ...)
\* d: the clock may advance between the two Date.now() calls.
WriteInput(r, d, ok) ==
    /\ pc[r] = "write"
    /\ now + d <= MaxTime
    /\ inputPath' = [inputPath EXCEPT ![r] = <<"input", now>>]
    /\ outputPath' = [outputPath EXCEPT ![r] = <<"output", now + d>>]
    /\ now' = now + d
    /\ IF ok
       THEN /\ tmp' = [tmp EXCEPT ![<<"input", now>>] = r]
            /\ pc' = [pc EXCEPT ![r] = "spawn"]
            /\ UNCHANGED err
       ELSE /\ Throw(r, "write failed")
            /\ UNCHANGED tmp
    /\ UNCHANGED <<videoDuration, clips, reqClip, child, overdue, started,
                   foreign, stored>>
    /\ UNCHANGED <<jvars, xvars>>

\* new Deno.Command('ffmpeg', ...).output(): the child starts, or the spawn
\* throws (no ffmpeg binary, no permission).
SpawnFfmpeg(r, ok) ==
    /\ pc[r] = "spawn"
    /\ IF ok
       THEN /\ child' = [child EXCEPT ![r] = "running"]
            /\ pc' = [pc EXCEPT ![r] = "ffmpeg"]
            /\ UNCHANGED err
       ELSE /\ Throw(r, "spawn failed")
            /\ UNCHANGED child
    /\ UNCHANGED <<videoDuration, clips, reqClip, inputPath, outputPath, tmp,
                   overdue, started, foreign, stored, now>>
    /\ UNCHANGED <<jvars, xvars>>

\* The wall clock passes the child's timeout window; the handler has no timer.
TimeoutElapses(r) ==
    /\ pc[r] = "ffmpeg"
    /\ child[r] = "running"
    /\ ~overdue[r]
    /\ overdue' = [overdue EXCEPT ![r] = TRUE]
    /\ UNCHANGED <<videoDuration, clips, pc, reqClip, inputPath, outputPath, tmp,
                   child, started, foreign, err, stored, now>>
    /\ UNCHANGED <<jvars, xvars>>

\* await output(): the child exits with `code`; if (code !== 0) throw.
\* ffmpeg reads inputPath and, on success, leaves outputPath; on failure it
\* may leave a partial output file.
FfmpegExit(r, code, partial) ==
    /\ pc[r] = "ffmpeg"
    /\ child[r] = "running"
    /\ child' = [child EXCEPT ![r] = "exited"]
    /\ foreign' = [foreign EXCEPT ![r] = @ \/ tmp[inputPath[r]] \notin {0, r}]
    /\ IF code = 0 /\ tmp[inputPath[r]] # 0
       THEN /\ tmp' = [tmp EXCEPT ![outputPath[r]] = r]
            /\ pc' = [pc EXCEPT ![r] = "read"]
            /\ UNCHANGED err
       ELSE /\ tmp' = IF partial THEN [tmp EXCEPT ![outputPath[r]] = r] ELSE tmp
            /\ Throw(r, "FFmpeg failed")
    /\ UNCHANGED <<videoDuration, clips, reqClip, inputPath, outputPath, overdue,
                   started, stored, now>>
    /\ UNCHANGED <<jvars, xvars>>

\* Deno.readFile(outputPath): throws when the file is gone
ReadOutput(r) ==
    /\ pc[r] = "read"
    /\ IF tmp[outputPath[r]] # 0
       THEN /\ pc' = [pc EXCEPT ![r] = "upload"]
            /\ foreign' = [foreign EXCEPT ![r] = @ \/ tmp[outputPath[r]] # r]
            /\ UNCHANGED err
       ELSE /\ Throw(r, "read failed")
            /\ UNCHANGED foreign
    /\ UNCHANGED <<videoDuration, clips, reqClip, inputPath, outputPath, tmp,
                   child, overdue, started, stored, now>>
    /\ UNCHANGED <<jvars, xvars>>

\* storage.from('clips').upload(clipPath, ..., upsert): the returned error is
\* not looked at, so the handler goes on whether or not the object was stored.
Upload(r, ok) ==
    /\ pc[r] = "upload"
    /\ stored' = IF ok THEN stored \cup {reqClip[r]} ELSE stored
    /\ pc' = [pc EXCEPT ![r] = "update"]
    /\ UNCHANGED <<videoDuration, clips, reqClip, inputPath, outputPath, tmp,
                   child, overdue, started, foreign, err, now>>
    /\ UNCHANGED <<jvars, xvars>>

\* update({ file_path: clipPath, status: 'ready' }).eq('id', clipId)
UpdateClip(r) ==
    /\ pc[r] = "update"
    /\ clips' = [clips EXCEPT ![reqClip[r]].status = "ready",
                              ![reqClip[r]].file_path = TRUE]
    /\ pc' = [pc EXCEPT ![r] = "rmIn"]
    /\ UNCHANGED <<videoDuration, reqClip, inputPath, outputPath, tmp, child,
                   overdue, started, foreign, err, stored, now>>
    /\ UNCHANGED <<jvars, xvars>>

\* Deno.remove(inputPath): throws NotFound when the file is gone
RemoveInput(r) ==
    /\ pc[r] = "rmIn"
    /\ IF tmp[inputPath[r]] # 0
       THEN /\ tmp' = [tmp EXCEPT ![inputPath[r]] = 0]
            /\ pc' = [pc EXCEPT ![r] = "rmOut"]
            /\ UNCHANGED err
       ELSE /\ Throw(r, "remove failed")
            /\ UNCHANGED tmp
    /\ UNCHANGED <<videoDuration, clips, reqClip, inputPath, outputPath, child,
                   overdue, started, foreign, stored, now>>
    /\ UNCHANGED <<jvars, xvars>>

\* Deno.remove(outputPath); return 200 { success: true, clipPath }
RemoveOutput(r) ==
    /\ pc[r] = "rmOut"
    /\ IF tmp[outputPath[r]] # 0
       THEN /\ tmp' = [tmp EXCEPT ![outputPath[r]] = 0]
            /\ pc' = [pc EXCEPT ![r] = "ok"]
            /\ UNCHANGED err
       ELSE /\ Throw(r, "remove failed")
            /\ UNCHANGED tmp
    /\ UNCHANGED <<videoDuration, clips, reqClip, inputPath, outputPath, child,
                   overdue, started, foreign, stored, now>>
    /\ UNCHANGED <<jvars, xvars>>

\* Date.now() advances
Tick ==
    /\ now < MaxTime
    /\ now' = now + 1
    /\ UNCHANGED <<videoDuration, clips, pc, reqClip, inputPath, outputPath, tmp,
                   child, overdue, started, foreign, err, stored>>
    /\ UNCHANGED <<jvars, xvars>>

Next ==
    \/ \E c \in ClipIds, s \in SuggestedClips : handleCreateClip(c, s)
    \/ \E r \in Requests, c \in ClipIds : Receive(r, c)
    \/ \E r \in Requests : LoadClip(r)
    \/ \E r \in Requests : SetProcessing(r)
    \/ \E r \in Requests, ok \in BOOLEAN : Download(r, ok)
    \/ \E r \in Requests, d \in 0..1, ok \in BOOLEAN : WriteInput(r, d, ok)
    \/ \E r \in Requests, ok \in BOOLEAN : SpawnFfmpeg(r, ok)
    \/ \E r \in Requests : TimeoutElapses(r)
    \/ \E r \in Requests, code \in 0..1, partial \in BOOLEAN : FfmpegExit(r, code, partial)
    \/ \E r \in Requests : ReadOutput(r)
    \/ \E r \in Requests, ok \in BOOLEAN : Upload(r, ok)
    \/ \E r \in Requests : UpdateClip(r)
    \/ \E r \in Requests : RemoveInput(r)
    \/ \E r \in Requests : RemoveOutput(r)
    \/ Tick

Spec == Init /\ [][Next]_vars

\* ------------------------------------------------------ processing_jobs
\* Values of processing_jobs.status (CHECK constraint of the table).
JobStatuses == {"queued", "processing", "completed", "failed"}

\* Outcomes a failed job records (error taxonomy).
ErrorKinds == {"TranscodeFailure", "TranscodeTimeout", "UploadFailure",
               "Cancelled", "InternalError"}

\* Kinds the failure signals of JobSpec carry: two values tell an overwritten
\* error kind from a kept one.
SignalKinds == {"TranscodeFailure", "Cancelled"}

\* Percentages the driver forwards to the table.
ProgressSteps == {50, 100}

\* Mutant: the column default names the running state.
DefaultStatusProcessing == "processing"

\* status text DEFAULT 'queued'
DefaultStatus == "queued"

\* Mutant: started_at defaults to now(), as created_at does.
createStartedAtDefault(j, clip) ==
    /\ jobs[j].status = "none"
    /\ jobs' = [jobs EXCEPT ![j] =
                  [status |-> DefaultStatus, clip_id |-> clip, progress |-> 0,
                   error_message |-> "none", metadata |-> 0,
                   started_at |-> TRUE, completed_at |-> FALSE]]
    /\ UNCHANGED <<firstSignal, lastDup>>
    /\ UNCHANGED <<hvars, xvars>>

\* INSERT INTO processing_jobs (clip_id, job_type): every other column takes
\* its default.
create(j, clip) ==
    /\ jobs[j].status = "none"
    /\ jobs' = [jobs EXCEPT ![j] =
                  [status |-> DefaultStatus, clip_id |-> clip, progress |-> 0,
                   error_message |-> "none", metadata |-> 0,
                   started_at |-> FALSE, completed_at |-> FALSE]]
    /\ UNCHANGED <<firstSignal, lastDup>>
    /\ UNCHANGED <<hvars, xvars>>

\* markRunning: the driver starts work on a queued job.
markRunning(j) ==
    /\ jobs[j].status # "none"
    /\ jobs' = IF jobs[j].status = "queued"
               THEN [jobs EXCEPT ![j].status = "processing",
                                 ![j].started_at = TRUE]
               ELSE jobs
    /\ UNCHANGED <<firstSignal, lastDup>>
    /\ UNCHANGED <<hvars, xvars>>

\* Mutant: the constraint has no upper limit.
ProgressCheckNoUpper(p) == p >= 0

\* CHECK (progress >= 0 AND progress <= 100): a write that breaks it fails.
ProgressCheck(p) == p >= 0 /\ p <= 100

\* Percentages a caller may report, one of them out of range.
ProgressReports == ProgressSteps \cup {150}

\* updateProgress: no-op unless the job is processing.
updateProgress(j, percent) ==
    /\ jobs[j].status # "none"
    /\ jobs' = IF /\ jobs[j].status = "processing"
                  /\ percent >= jobs[j].progress
                  /\ ProgressCheck(percent)
               THEN [jobs EXCEPT ![j].progress = percent]
               ELSE jobs
    /\ UNCHANGED <<firstSignal, lastDup>>
    /\ UNCHANGED <<hvars, xvars>>

\* Mutant: the update lacks .eq("status", "processing").
CompletionMatchesAnyStatus(j, clip) ==
    /\ jobs[j].clip_id = clip
    /\ jobs[j].status # "none"

\* Mutant: the update excludes completed rows only.
CompletionMatchesNotCompleted(j, clip) ==
    /\ jobs[j].clip_id = clip
    /\ jobs[j].status \notin {"none", "completed"}

\* The rows the completing update matches:
\*   .eq(<owner column>, id).eq("job_type", type).eq("status", "processing")
CompletionMatches(j, clip) ==
    /\ jobs[j].clip_id = clip
    /\ jobs[j].status = "processing"

\* A completion signal is the first one for every live job it is addressed to.
Signalled(J, s) ==
    [j \in JobIds |->
        IF j \in J /\ jobs[j].status \in {"queued", "processing"}
           /\ firstSignal[j] = NoSignal
        THEN s ELSE firstSignal[j]]

\* A signal addressed to a job that has had one already.
Duplicated(J) ==
    LET D == {j \in J : firstSignal[j] # NoSignal}
    IN  IF D = {} THEN lastDup ELSE CHOOSE j \in D : TRUE

\* update({ status: "completed", progress: 100, completed_at, metadata })
\* on the matching rows.
markSucceeded(clip, output) ==
    /\ \E j \in JobIds : jobs[j].status # "none" /\ jobs[j].clip_id = clip
    /\ jobs' = [j \in JobIds |->
                  IF CompletionMatches(j, clip)
                  THEN [jobs[j] EXCEPT !.status = "completed",
                                       !.progress = 100,
                                       !.completed_at = TRUE,
                                       !.metadata = output]
                  ELSE jobs[j]]
    /\ firstSignal' = Signalled({j \in JobIds : jobs[j].clip_id = clip
                                                 /\ jobs[j].status = "processing"},
                                [status |-> "completed", metadata |-> output,
                                 error_message |-> "none"])
    /\ lastDup' = Duplicated({j \in JobIds : jobs[j].clip_id = clip})
    /\ UNCHANGED <<hvars, xvars>>

\* markFailed: rejected on a job that is already terminal.
markFailed(j, kind) ==
    /\ jobs[j].status # "none"
    /\ jobs' = IF jobs[j].status \in {"queued", "processing"}
               THEN [jobs EXCEPT ![j].status = "failed",
                                 ![j].error_message = kind,
                                 ![j].completed_at = TRUE]
               ELSE jobs
    /\ firstSignal' = Signalled({j}, [status |-> "failed", metadata |-> 0,
                                      error_message |-> kind])
    /\ lastDup' = Duplicated({j})
    /\ UNCHANGED <<hvars, xvars>>

JobNext ==
    \/ \E j \in JobIds, c \in ClipIds : create(j, c)
    \/ \E j \in JobIds : markRunning(j)
    \/ \E j \in JobIds, p \in ProgressReports : updateProgress(j, p)
    \/ \E c \in ClipIds, o \in OutputLocators : markSucceeded(c, o)
    \/ \E j \in JobIds, k \in SignalKinds : markFailed(j, k)

\* The handler part stands still in JobSpec; one source video is enough.
JobSpecInit == Init /\ videoDuration = 600

JobSpec == JobSpecInit /\ [][JobNext]_vars

\* ------------------------------------------------------------ properties
Terminal == {"completed", "failed"}

LegalMoves ==
    { <<"none", "queued">>, <<"queued", "processing">>,
      <<"processing", "completed">>, <<"processing", "failed">>,
      <<"queued", "failed">> }

Responded(r) == pc[r] \in {"ok", "err"}

\* An invocation that has written status 'processing' and not answered yet.
Running(r) == started[r] /\ ~Responded(r)

\* C3: a clip whose status is 'processing' has an invocation at work on it:
\* when a step fails after the status was set, the status is moved on to a
\* terminal value and does not stay 'processing'.
C3_NeverLeftProcessing ==
    \A c \in ClipIds :
        clips[c].status = "processing" =>
            \E r \in Requests : reqClip[r] = c /\ Running(r)

\* C4: at most one export of a clip is in progress at any moment.
C4_OneExportPerClip ==
    \A r1, r2 \in Requests :
        (r1 # r2 /\ Running(r1) /\ Running(r2)) => reqClip[r1] # reqClip[r2]

\* C5: once an invocation has answered, no temp file it wrote exists, and no
\* invocation consumes a temp file written by another one.
C5_WorkspaceRemoved ==
    \A r \in Requests :
        /\ Responded(r) => \A p \in TmpPaths : tmp[p] # r
        /\ ~foreign[r]

\* The window a clip must lie in: inside the source and of accepted length.
ValidClipSpec(clip) ==
    /\ 0 <= clip.start_time
    /\ clip.start_time < clip.end_time
    /\ clip.end_time <= videoDuration
    /\ MinClipDuration <= clip.end_time - clip.start_time
    /\ clip.end_time - clip.start_time <= MaxClipDuration

\* C6: an export request for a clip outside the window is refused before any
\* state is written: the clip status is not touched and no temp path is taken.
C6_InvalidRejected ==
    \A r \in Requests :
        (reqClip[r] # 0 /\ clips[reqClip[r]].exists
                        /\ ~ValidClipSpec(clips[reqClip[r]])) =>
            /\ ~started[r]
            /\ inputPath[r] = NoPath

\* C8: the number of ffmpeg children running at once is at most the size of
\* the worker pool.
C8_PoolCap ==
    Cardinality({r \in Requests : child[r] = "running"}) <= WorkerPoolSize

\* C9: a child whose timeout window has elapsed is not running any more.
C9_TimeoutKills ==
    \A r \in Requests : overdue[r] => child[r] # "running"

ClipCount == 10

\* p_credits of the call is clipSuggestions.length * 2.
CreditsPerSuggestion == 2

\* req.json(), the videos row and its transcription, groq.analyzeForClips and
\* the insert of the suggested clips: a failure of any of them throws.
\* Requests are numbered in their order of arrival.
AiAnalyze(r, v, ok) ==
    /\ apc[r] = "idle"
    /\ \A q \in Requests : q < r => apc[q] # "idle"
    /\ IF ok
       THEN /\ apc' = [apc EXCEPT ![r] = "updating"]
            /\ avideo' = [avideo EXCEPT ![r] = v]
       ELSE /\ apc' = [apc EXCEPT ![r] = "done500"]
            /\ UNCHANGED avideo
    /\ UNCHANGED <<notified, credits>>
    /\ UNCHANGED <<hvars, jvars, gvars, svars, rvars, yvars>>

\* The guarded update of processing_jobs; jobError is only logged.
AiUpdateJob(r, ok) ==
    /\ apc[r] = "updating"
    /\ apc' = [apc EXCEPT ![r] = "charging"]
    /\ IF ok
       THEN /\ jobs' = [j \in JobIds |->
                          IF CompletionMatches(j, avideo[r])
                          THEN [jobs[j] EXCEPT !.status = "completed",
                                               !.progress = 100,
                                               !.completed_at = TRUE,
                                               !.metadata = ClipCount]
                          ELSE jobs[j]]
            /\ firstSignal' =
                   Signalled({j \in JobIds : CompletionMatches(j, avideo[r])},
                             [status |-> "completed", metadata |-> ClipCount,
                              error_message |-> "none"])
            /\ lastDup' =
                   Duplicated({j \in JobIds : jobs[j].clip_id = avideo[r]})
       ELSE UNCHANGED jvars
    /\ UNCHANGED <<avideo, notified, credits>>
    /\ UNCHANGED <<hvars, gvars, svars, rvars, yvars>>

\* increment_ai_credits: ai_credits_used = ai_credits_used + p_credits;
\* usageError is only logged.
AiIncrementCredits(r, ok) ==
    /\ apc[r] = "charging"
    /\ apc' = [apc EXCEPT ![r] = "notifying"]
    /\ credits' = IF ok THEN credits + ClipCount * CreditsPerSuggestion
                        ELSE credits
    /\ UNCHANGED <<avideo, notified>>
    /\ UNCHANGED <<hvars, jvars, gvars, svars, rvars, yvars>>

\* Mutant: the error of the insert is thrown.
AiNotifyThrows(r, ok) ==
    /\ apc[r] = "notifying"
    /\ apc' = [apc EXCEPT ![r] = IF ok THEN "done200" ELSE "done500"]
    /\ notified' = [notified EXCEPT ![r] = IF ok THEN "sent" ELSE "failed"]
    /\ avideo' = [avideo EXCEPT ![r] = 0]
    /\ UNCHANGED credits
    /\ UNCHANGED <<hvars, jvars, gvars, svars, rvars, yvars>>

\* The insert into notifications, whose error is not read, then the 200
\* response.
AiNotify(r, ok) ==
    /\ apc[r] = "notifying"
    /\ apc' = [apc EXCEPT ![r] = "done200"]
    /\ notified' = [notified EXCEPT ![r] = IF ok THEN "sent" ELSE "failed"]
    /\ avideo' = [avideo EXCEPT ![r] = 0]
    /\ UNCHANGED credits
    /\ UNCHANGED <<hvars, jvars, gvars, svars, rvars, yvars>>

\* Jobs of type 'clip_generation' and the videos they belong to.
AiNext ==
    \/ \E j \in AnalysisJobs, v \in VideoIds : create(j, v)
    \/ \E j \in AnalysisJobs : markRunning(j)
    \/ \E j \in AnalysisJobs, k \in SignalKinds : markFailed(j, k)
    \/ \E r \in Requests, v \in VideoIds, ok \in BOOLEAN : AiAnalyze(r, v, ok)
    \/ \E r \in Requests, ok \in BOOLEAN : AiUpdateJob(r, ok)
    \/ \E r \in Requests, ok \in BOOLEAN : AiIncrementCredits(r, ok)
    \/ \E r \in Requests, ok \in BOOLEAN : AiNotify(r, ok)

AiSpec == JobSpecInit /\ [][AiNext]_vars

\* ----------------------------------------------------- output geometry
\* Values of clip.aspect_ratio: the four of the CHECK constraint, NULL (which
\* the constraint lets through) and two strings outside the table.
Ratios == {"16:9", "9:16", "1:1", "4:5", "null", "21:9", "4:3"}

\* Sizes of source videos.
SourceSizes == {<<1920, 1080>>, <<1280, 720>>, <<1080, 1920>>, <<640, 480>>,
                <<1000, 1000>>, <<853, 480>>}

\* const aspectRatios / const dimensions: the same table in both builders.
aspectRatios ==
    [ratio \in {"16:9", "9:16", "1:1", "4:5"} |->
        CASE ratio = "16:9" -> <<1920, 1080>>
          [] ratio = "9:16" -> <<1080, 1920>>
          [] ratio = "1:1" -> <<1080, 1080>>
          [] ratio = "4:5" -> <<1080, 1350>>]

\* const dims = aspectRatios[clip.aspect_ratio] || aspectRatios['16:9']
exportClipDims(ratio) ==
    IF ratio \in DOMAIN aspectRatios THEN aspectRatios[ratio]
    ELSE aspectRatios["16:9"]

\* return dimensions[ratio] || [1920, 1080]
getAspectRatioDimensions(ratio) ==
    IF ratio \in DOMAIN aspectRatios THEN aspectRatios[ratio]
    ELSE <<1920, 1080>>

\* a * b / c rounded to the nearest integer, as the scale filter rescales.
Rescale(a, b, c) == (2 * a * b + c) \div (2 * c)

Min(a, b) == IF a <= b THEN a ELSE b

\* scale=W:H:force_original_aspect_ratio=decrease,pad=W:H:(ow-iw)/2:(oh-ih)/2
ScalePad(src, dims) ==
    LET w == Min(Rescale(dims[2], src[1], src[2]), dims[1])
        h == Min(Rescale(dims[1], src[2], src[1]), dims[2])
    IN  [outW |-> dims[1], outH |-> dims[2], w |-> w, h |-> h,
         x |-> (dims[1] - w) \div 2, y |-> (dims[2] - h) \div 2]

\* scale=W:H,setsar=1:1
ScaleSetsar(src, dims) ==
    [outW |-> dims[1], outH |-> dims[2], w |-> dims[1], h |-> dims[2],
     x |-> 0, y |-> 0]

\* export-clip resolves the dimensions of the clip.
ResolveExportClip ==
    /\ gstage = "input"
    /\ gstage' = "resolved"
    /\ gimpl' = "export-clip"
    /\ gdims' = exportClipDims(gratio)
    /\ UNCHANGED <<gratio, gsrc, gpic>>
    /\ UNCHANGED <<hvars, jvars, avars, svars, rvars, yvars>>

\* processWithFFmpeg resolves the dimensions of the clip.
ResolveProcessWithFFmpeg ==
    /\ gstage = "input"
    /\ gstage' = "resolved"
    /\ gimpl' = "processWithFFmpeg"
    /\ gdims' = getAspectRatioDimensions(gratio)
    /\ UNCHANGED <<gratio, gsrc, gpic>>
    /\ UNCHANGED <<hvars, jvars, avars, svars, rvars, yvars>>

\* ffmpeg runs the -vf chain export-clip built.
RunExportClipFilter ==
    /\ gstage = "resolved" /\ gimpl = "export-clip"
    /\ gstage' = "filtered"
    /\ gpic' = ScalePad(gsrc, gdims)
    /\ UNCHANGED <<gratio, gsrc, gimpl, gdims>>
    /\ UNCHANGED <<hvars, jvars, avars, svars, rvars, yvars>>

\* ffmpeg runs the -vf chain processWithFFmpeg built.
RunProcessWithFFmpegFilter ==
    /\ gstage = "resolved" /\ gimpl = "processWithFFmpeg"
    /\ gstage' = "filtered"
    /\ gpic' = ScaleSetsar(gsrc, gdims)
    /\ UNCHANGED <<gratio, gsrc, gimpl, gdims>>
    /\ UNCHANGED <<hvars, jvars, avars, svars, rvars, yvars>>

GeomInit ==
    /\ gstage = "input"
    /\ gratio \in Ratios
    /\ gsrc \in SourceSizes
    /\ gimpl = "none"
    /\ gdims = NoDims
    /\ gpic = NoPic

GeomNext ==
    \/ ResolveExportClip
    \/ ResolveProcessWithFFmpeg
    \/ RunExportClipFilter
    \/ RunProcessWithFFmpegFilter

GeomSpecInit ==
    /\ HandlerInit /\ videoDuration = 600
    /\ JobInit
    /\ AiInit
    /\ GeomInit
    /\ SubIdle
    /\ RouteIdle
    /\ YIdle

GeomSpec == GeomSpecInit /\ [][GeomNext]_vars

\* ------------------------------------------------------------ subtitles
MaxWords == 2

\* Clip windows [start_time, end_time], in milliseconds.
Windows == {<<95000, 110000>>, <<0, 30000>>}

\* captions.words: start and end of a word, in milliseconds of the video.
Words == {<<100500, 103200>>, <<90000, 96000>>, <<108000, 112000>>,
          <<200000, 201000>>, <<3661001, 3662000>>}

WordLists == UNION {[1..n -> Words] : n \in 0..MaxWords}

\* formatSrtTime: HH:MM:SS,mmm of a time, each field floored.
formatSrtTime(ms) ==
    <<ms \div 3600000, (ms % 3600000) \div 60000, (ms % 60000) \div 1000,
      ms % 1000>>

\* if (captions && captions.enabled): the subtitles filter is added.
\* generateSubtitleFile: one SRT entry per word of captions.words,
\* formatSrtTime(word.start) --> formatSrtTime(word.end).
GenerateSubtitleFile ==
    /\ ~srendered
    /\ captions.supplied /\ captions.enabled
    /\ srendered' = TRUE
    /\ subtitles' =
          [filter |-> TRUE,
           cues |-> [i \in 1..Len(captions.words) |->
                       <<formatSrtTime(captions.words[i][1]),
                         formatSrtTime(captions.words[i][2])>>]]
    /\ UNCHANGED <<swindow, captions>>
    /\ UNCHANGED <<hvars, jvars, avars, gvars, rvars, yvars>>

\* No captions, or captions that are not enabled: no subtitles filter.
SkipSubtitles ==
    /\ ~srendered
    /\ ~(captions.supplied /\ captions.enabled)
    /\ srendered' = TRUE
    /\ subtitles' = NoSubtitles
    /\ UNCHANGED <<swindow, captions>>
    /\ UNCHANGED <<hvars, jvars, avars, gvars, rvars, yvars>>

SubInit ==
    /\ swindow \in Windows
    /\ captions \in {NoCaptions} \cup
                     [supplied : {TRUE}, enabled : BOOLEAN, words : WordLists]
    /\ srendered = FALSE
    /\ subtitles = NoSubtitles

SubNext ==
    \/ GenerateSubtitleFile
    \/ SkipSubtitles

SubSpecInit ==
    /\ HandlerInit /\ videoDuration = 600
    /\ JobInit
    /\ AiInit
    /\ GeomIdle
    /\ SubInit
    /\ RouteIdle
    /\ YIdle

SubSpec == SubSpecInit /\ [][SubNext]_vars

\* -------------------------------------------------- ProtectedAdminRoute
Roles == {"user", "admin", "super_admin"}

Profiles == {NoProfile} \cup
            [exists : {TRUE}, is_active : BOOLEAN, role : Roles]

\* The return of the component for the values of one render.
Render(l, a) ==
    IF l \/ a = "null" THEN "spinner"
    ELSE IF a = "false" THEN "redirect"
    ELSE "children"

\* What the effect passes to setIsAuthorized.
EffectValue ==
    IF ~user \/ ~profile.exists THEN "false"
    ELSE IF ~profile.is_active THEN "false"
    ELSE IF requireSuperAdmin
         THEN (IF profile.role = "super_admin" THEN "true" ELSE "false")
         ELSE (IF profile.role \in {"admin", "super_admin"}
               THEN "true" ELSE "false")

\* The auth context changes; a mounted route renders again with the state
\* it has, and its effect is scheduled.
AuthChange(l, u, p) ==
    /\ <<l, u, p>> # <<loading, user, profile>>
    /\ loading' = l /\ user' = u /\ profile' = p
    /\ IF view = "redirect"
       THEN UNCHANGED <<effectDue, view>>
       ELSE effectDue' = TRUE /\ view' = Render(l, isAuthorized)
    /\ UNCHANGED <<requireSuperAdmin, isAuthorized>>
    /\ UNCHANGED <<hvars, jvars, avars, gvars, svars, yvars>>

\* The effect runs after the render; a new state value renders again.
RunEffect ==
    /\ effectDue /\ view # "redirect"
    /\ effectDue' = FALSE
    /\ isAuthorized' = IF loading THEN isAuthorized ELSE EffectValue
    /\ view' = Render(loading, isAuthorized')
    /\ UNCHANGED <<loading, user, profile, requireSuperAdmin>>
    /\ UNCHANGED <<hvars, jvars, avars, gvars, svars, yvars>>

\* <Navigate> left the route; the user opens it again and it mounts anew.
Remount ==
    /\ view = "redirect"
    /\ isAuthorized' = "null"
    /\ effectDue' = TRUE
    /\ view' = Render(loading, "null")
    /\ UNCHANGED <<loading, user, profile, requireSuperAdmin>>
    /\ UNCHANGED <<hvars, jvars, avars, gvars, svars, yvars>>

RouteInit ==
    /\ loading = TRUE
    /\ user = FALSE
    /\ profile = NoProfile
    /\ requireSuperAdmin \in BOOLEAN
    /\ isAuthorized = "null"
    /\ effectDue = TRUE
    /\ view = "spinner"

RouteNext ==
    \/ \E l \in BOOLEAN, u \in BOOLEAN, p \in Profiles : AuthChange(l, u, p)
    \/ RunEffect
    \/ Remount

RouteSpecInit ==
    /\ HandlerInit /\ videoDuration = 600
    /\ JobInit
    /\ AiInit
    /\ GeomIdle
    /\ SubIdle
    /\ RouteInit
    /\ YIdle

RouteSpec == RouteSpecInit /\ [][RouteNext]_vars

\* ------------------------------------------- FeatureGate and LimitGate
Tiers == {"free", "pro", "business", "enterprise"}

Features == {"youtube_import", "ai_transcription", "ai_clip_detection",
             "ai_captions", "social_media_export", "batch_processing",
             "team_collaboration", "advanced_analytics", "custom_branding",
             "api_access"}

\* Mutant: ai_captions is open to pro as well.
featureTierMapCaptionsForPro ==
    [f \in Features |->
        CASE f = "youtube_import" -> Tiers
          [] f \in {"ai_transcription", "ai_clip_detection", "ai_captions",
                    "social_media_export"} -> {"pro", "business", "enterprise"}
          [] f \in {"batch_processing", "team_collaboration",
                    "advanced_analytics"} -> {"business", "enterprise"}
          [] OTHER -> {"enterprise"}]

\* const featureTierMap of canUserAccess.
featureTierMap ==
    [f \in Features |->
        CASE f = "youtube_import" -> {"free", "pro", "business", "enterprise"}
          [] f = "ai_transcription" -> {"pro", "business", "enterprise"}
          [] f = "ai_clip_detection" -> {"pro", "business", "enterprise"}
          [] f = "ai_captions" -> {"business", "enterprise"}
          [] f = "social_media_export" -> {"pro", "business", "enterprise"}
          [] f = "batch_processing" -> {"business", "enterprise"}
          [] f = "team_collaboration" -> {"business", "enterprise"}
          [] f = "advanced_analytics" -> {"business", "enterprise"}
          [] f = "custom_branding" -> {"enterprise"}
          [] f = "api_access" -> {"enterprise"}]

\* profile.subscription_tier || 'free'
TierOrFree == IF gateProfile = "unset" THEN "free" ELSE gateProfile

\* settings?.features?.[feature] ?? false
isFeatureEnabled(feature) == gateSettings /\ gateFlag = "on"

canUserAccess(feature) ==
    IF ~isFeatureEnabled(feature) THEN FALSE
    ELSE IF gateProfile = "null" THEN FALSE
    ELSE TierOrFree \in featureTierMap[feature]

\* One render of <FeatureGate feature=...>.
RenderFeatureGate ==
    /\ gateView = "unrendered"
    /\ gateView' =
          IF ~isFeatureEnabled(gateFeature)
          THEN (IF gateFallback THEN "fallback"
                ELSE IF gatePrompt THEN "FeatureDisabled" ELSE "null")
          ELSE IF ~canUserAccess(gateFeature)
          THEN (IF gateFallback THEN "fallback"
                ELSE IF gatePrompt THEN "UpgradePrompt" ELSE "null")
          ELSE "children"
    /\ UNCHANGED <<gateSettings, gateFlag, gateProfile, gateUsage, gateFeature,
                   gateLimitType, gateFallback, gatePrompt>>
    /\ UNCHANGED <<basevars, uvars, bvars, cvars, fvars, pvars>>

\* The props and the state of useSettings at the render.
FeatureInit ==
    /\ gateSettings \in BOOLEAN
    /\ gateFlag \in (IF gateSettings THEN {"on", "off", "absent"}
                      ELSE {"absent"})
    /\ gateProfile \in Tiers \cup {"unset", "null"}
    /\ gateUsage = -1
    /\ gateFeature \in Features
    /\ gateLimitType = "videos_uploaded"
    /\ gateFallback \in BOOLEAN
    /\ gatePrompt \in BOOLEAN
    /\ gateView = "unrendered"

FeatureNext == RenderFeatureGate

FeatureSpecInit ==
    /\ BaseIdle
    /\ RoleIdle
    /\ UploadIdle
    /\ ClipsIdle
    /\ UrlIdle
    /\ TrackIdle
    /\ FeatureInit

FeatureSpec == FeatureSpecInit /\ [][FeatureNext]_vars

\* Counters of usage_tracking and keys of a tier's limits.
UsageCounters == {"videos_uploaded", "clips_generated", "ai_credits_used",
                  "storage_used"}

LimitKeys == {"videos_per_month", "clips_per_video", "max_video_size_gb",
              "max_video_duration_minutes", "storage_gb",
              "ai_credits_per_month"}

\* The default 'limits' row of system_settings.
limits ==
    [t \in Tiers |->
        CASE t = "free" ->
               [k \in LimitKeys |->
                  CASE k = "videos_per_month" -> 2
                    [] k = "clips_per_video" -> 10
                    [] k = "max_video_size_gb" -> 2
                    [] k = "max_video_duration_minutes" -> 30
                    [] k = "storage_gb" -> 5
                    [] k = "ai_credits_per_month" -> 100]
          [] t = "pro" ->
               [k \in LimitKeys |->
                  CASE k = "videos_per_month" -> 20
                    [] k = "clips_per_video" -> 50
                    [] k = "max_video_size_gb" -> 10
                    [] k = "max_video_duration_minutes" -> 120
                    [] k = "storage_gb" -> 50
                    [] k = "ai_credits_per_month" -> 1000]
          [] t = "business" ->
               [k \in LimitKeys |->
                  CASE k = "videos_per_month" -> 100
                    [] k = "clips_per_video" -> 100
                    [] k = "max_video_size_gb" -> 20
                    [] k = "max_video_duration_minutes" -> 240
                    [] k = "storage_gb" -> 200
                    [] k = "ai_credits_per_month" -> 5000]
          [] t = "enterprise" ->
               [k \in LimitKeys |->
                  CASE k = "storage_gb" -> 1000
                    [] OTHER -> -1]]

\* getUserLimit: (tierLimits as any)[limitKey] ?? 0
getUserLimit(limitKey) ==
    IF gateProfile = "null" \/ ~gateSettings THEN 0
    ELSE IF limitKey \in LimitKeys THEN limits[TierOrFree][limitKey]
    ELSE 0

\* (usage as any)[limitType] || 0
currentValue(limitType) ==
    IF limitType \in UsageCounters THEN gateUsage ELSE 0

hasReachedLimit(limitType) ==
    IF gateUsage = -1 \/ gateProfile = "null" \/ ~gateSettings THEN FALSE
    ELSE IF getUserLimit(limitType) = -1 THEN FALSE
    ELSE currentValue(limitType) >= getUserLimit(limitType)

\* One render of <LimitGate limitType=...>.
RenderLimitGate ==
    /\ gateView = "unrendered"
    /\ gateView' = IF hasReachedLimit(gateLimitType)
                   THEN (IF gateFallback THEN "fallback" ELSE "LimitReached")
                   ELSE "children"
    /\ UNCHANGED <<gateSettings, gateFlag, gateProfile, gateUsage, gateFeature,
                   gateLimitType, gateFallback, gatePrompt>>
    /\ UNCHANGED <<basevars, uvars, bvars, cvars, fvars, pvars>>

\* Values of the counter this month.
UsageValues == {0, 1, 2, 19, 20, 100, 150}

LimitInit ==
    /\ gateSettings \in BOOLEAN
    /\ gateFlag = "absent"
    /\ gateProfile \in Tiers \cup {"unset", "null"}
    /\ gateUsage \in UsageValues \cup {-1}
    /\ gateFeature = "youtube_import"
    /\ gateLimitType \in {"videos_uploaded", "ai_credits_used",
                          "videos_per_month"}
    /\ gateFallback \in BOOLEAN
    /\ gatePrompt = TRUE
    /\ gateView = "unrendered"

LimitNext == RenderLimitGate

LimitSpecInit ==
    /\ BaseIdle
    /\ RoleIdle
    /\ UploadIdle
    /\ ClipsIdle
    /\ UrlIdle
    /\ TrackIdle
    /\ LimitInit

LimitSpec == LimitSpecInit /\ [][LimitNext]_vars

\* --------------------------------------------------- usage tracking
\* file_size of an inserted video.
FileSizes == {1, 2, 3}

\* update_storage_on_video_upload: UPDATE usage_tracking ... WHERE user_id
\* and month match; no row, nothing updated.
update_storage_on_video_upload(rows, u, size) ==
    [rows EXCEPT ![u] = IF @.exists
                        THEN [@ EXCEPT !.storage_used = @ + size]
                        ELSE @]

\* update_usage_on_video_upload: INSERT ... ON CONFLICT (user_id, month)
\* DO UPDATE SET videos_uploaded = videos_uploaded + 1.
update_usage_on_video_upload(rows, u) ==
    [rows EXCEPT ![u] = IF @.exists
                        THEN [@ EXCEPT !.videos_uploaded = @ + 1]
                        ELSE [exists |-> TRUE, videos_uploaded |-> 1,
                              storage_used |-> 0]]

\* INSERT INTO videos: the AFTER INSERT triggers of the row fire in the order
\* of their names, video_storage_usage_trigger before
\* video_uploaded_usage_trigger.
InsertVideo(u, size) ==
    /\ videosInserted[u] < MaxVideos
    /\ videosInserted' = [videosInserted EXCEPT ![u] = @ + 1]
    /\ bytesInserted' = [bytesInserted EXCEPT ![u] = @ + size]
    /\ profileStorage' = [profileStorage EXCEPT ![u] = @ + size]
    /\ usageRows' = update_usage_on_video_upload(
                       update_storage_on_video_upload(usageRows, u, size), u)
    /\ UNCHANGED <<basevars, tvars, bvars, cvars, fvars, pvars>>

TrackNext == \E u \in Users, size \in FileSizes : InsertVideo(u, size)

TrackSpecInit ==
    /\ BaseIdle
    /\ RoleIdle
    /\ UploadIdle
    /\ ClipsIdle
    /\ UrlIdle
    /\ GateIdle
    /\ TrackIdle

TrackSpec == TrackSpecInit /\ [][TrackNext]_vars

\* ---------------------------------------------------- getBackendUrl
\* CACHE_DURATION = 5 * 60 * 1000 ms, in minutes.
CACHE_DURATION == 5

DbUrls == {"https://a.example", "https://b.example"}
EnvUrl == "https://env.example"
DefaultUrl == "http://localhost:8000"

\* getBackendUrl up to its await: a fresh cached value is returned, otherwise
\* the select is sent.
StartCall(c) ==
    /\ callPc[c] = "idle"
    /\ cleared' = FALSE
    /\ IF cachedBackendUrl # "" /\ urlClock - lastFetchTime < CACHE_DURATION
       THEN /\ callPc' = [callPc EXCEPT ![c] = "done"]
            /\ callResult' = [callResult EXCEPT ![c] = cachedBackendUrl]
            /\ callSource' = [callSource EXCEPT ![c] = "cache"]
       ELSE /\ callPc' = [callPc EXCEPT ![c] = "fetching"]
            /\ UNCHANGED <<callResult, callSource>>
    /\ UNCHANGED <<cachedBackendUrl, lastFetchTime, urlClock, dbUrl, envUrl,
                   hostLocal>>
    /\ UNCHANGED <<basevars, tvars, uvars, cvars, fvars, pvars>>

\* The select returns (ok) or fails; then database, environment, default.
FinishCall(c, ok) ==
    /\ callPc[c] = "fetching"
    /\ callPc' = [callPc EXCEPT ![c] = "done"]
    /\ IF ok /\ dbUrl # ""
       THEN /\ cachedBackendUrl' = dbUrl
            /\ lastFetchTime' = urlClock
            /\ callResult' = [callResult EXCEPT ![c] = dbUrl]
            /\ callSource' = [callSource EXCEPT ![c] = "database"]
       ELSE IF envUrl # ""
       THEN /\ cachedBackendUrl' = envUrl
            /\ lastFetchTime' = urlClock
            /\ callResult' = [callResult EXCEPT ![c] = envUrl]
            /\ callSource' = [callSource EXCEPT ![c] = "environment"]
       ELSE /\ callResult' = [callResult EXCEPT ![c] =
                                IF hostLocal THEN DefaultUrl ELSE ""]
            /\ callSource' = [callSource EXCEPT ![c] =
                                IF hostLocal THEN "default" ELSE "empty"]
            /\ UNCHANGED <<cachedBackendUrl, lastFetchTime>>
    /\ UNCHANGED <<urlClock, dbUrl, envUrl, hostLocal, cleared>>
    /\ UNCHANGED <<basevars, tvars, uvars, cvars, fvars, pvars>>

clearBackendUrlCache ==
    /\ cachedBackendUrl' = ""
    /\ lastFetchTime' = 0
    /\ cleared' = TRUE
    /\ UNCHANGED <<urlClock, dbUrl, envUrl, hostLocal, callPc, callResult,
                   callSource>>
    /\ UNCHANGED <<basevars, tvars, uvars, cvars, fvars, pvars>>

\* SystemSettingsPage.handleSave: update of the backend_url row.
handleSave(url) ==
    /\ dbUrl # "" /\ dbUrl # url
    /\ dbUrl' = url
    /\ UNCHANGED <<cachedBackendUrl, lastFetchTime, urlClock, envUrl, hostLocal,
                   callPc, callResult, callSource, cleared>>
    /\ UNCHANGED <<basevars, tvars, uvars, cvars, fvars, pvars>>

\* A minute passes.
UrlTick ==
    /\ urlClock < MaxMinutes
    /\ urlClock' = urlClock + 1
    /\ UNCHANGED <<cachedBackendUrl, lastFetchTime, dbUrl, envUrl, hostLocal,
                   callPc, callResult, callSource, cleared>>
    /\ UNCHANGED <<basevars, tvars, uvars, cvars, fvars, pvars>>

UrlInit ==
    /\ cachedBackendUrl = ""
    /\ lastFetchTime = 0
    /\ urlClock = 0
    /\ dbUrl \in DbUrls \cup {""}
    /\ envUrl \in {"", EnvUrl}
    /\ hostLocal \in BOOLEAN
    /\ callPc = [c \in Callers |-> "idle"]
    /\ callResult = [c \in Callers |-> ""]
    /\ callSource = [c \in Callers |-> "none"]
    /\ cleared = FALSE

UrlNext ==
    \/ \E c \in Callers : StartCall(c)
    \/ \E c \in Callers, ok \in BOOLEAN : FinishCall(c, ok)
    \/ clearBackendUrlCache
    \/ \E url \in DbUrls : handleSave(url)
    \/ UrlTick

UrlSpecInit ==
    /\ BaseIdle
    /\ RoleIdle
    /\ UploadIdle
    /\ ClipsIdle
    /\ GateIdle
    /\ TrackIdle
    /\ UrlInit

UrlSpec == UrlSpecInit /\ [][UrlNext]_vars

\* ---------------------------------------------------- analyzeForClips
\* <<start_time, end_time>> of the clips the model may answer with.
AnswerClips == {<<10, 20>>, <<45, 75>>, <<20, 90>>, <<80, 120>>, <<30, 30>>}

Answers == UNION {[1..n -> AnswerClips] : n \in 0..MaxAnswer}

\* options?.minDuration || 15: absent and 0 both give the default.
MinOrDefault(option) == IF option = -1 \/ option = 0 THEN 15 ELSE option

\* options?.maxDuration || 60
MaxOrDefault(option) == IF option = -1 \/ option = 0 THEN 60 ELSE option

\* The predicate of clips.filter.
KeepsClip(clip) ==
    /\ clip[1] >= 0
    /\ clip[2] <= analysisDuration
    /\ clip[1] < clip[2]
    /\ clip[2] - clip[1] >= MinOrDefault(optMin)
    /\ clip[2] - clip[1] <= MaxOrDefault(optMax)

\* clips.filter(...).map(clip => ({...clip, duration}))
analyzeForClips ==
    /\ ~analysed
    /\ analysed' = TRUE
    /\ validatedClips' =
          LET kept == SelectSeq(answer, KeepsClip)
          IN  [i \in 1..Len(kept) |->
                 [start_time |-> kept[i][1], end_time |-> kept[i][2],
                  duration |-> kept[i][2] - kept[i][1]]]
    /\ UNCHANGED <<optMin, optMax, analysisDuration, answer>>
    /\ UNCHANGED <<basevars, tvars, uvars, bvars, fvars, pvars>>

ClipsInit ==
    /\ optMin \in {-1, 0, 10, 15}
    /\ optMax \in {-1, 0, 30, 60}
    /\ analysisDuration \in {100}
    /\ answer \in Answers
    /\ analysed = FALSE
    /\ validatedClips = <<>>

ClipsNext == analyzeForClips

ClipsSpecInit ==
    /\ BaseIdle
    /\ RoleIdle
    /\ UploadIdle
    /\ GateIdle
    /\ TrackIdle
    /\ UrlIdle
    /\ ClipsInit

ClipsSpec == ClipsSpecInit /\ [][ClipsNext]_vars

\* ------------------------------------------------- VideoUpload.onDrop
\* The for loop takes up the next file once the try block of the one before
\* has got past its await: the entry is appended and the upload sent.
StartFile(f) ==
    /\ filePc[f] = "pending"
    /\ \A g \in Files : g < f => filePc[g] \notin {"pending", "uploading"}
    /\ filePc' = [filePc EXCEPT ![f] = "uploading"]
    /\ uploadingFiles' = [uploadingFiles EXCEPT ![f] =
                            [status |-> "uploading", progress |-> 0,
                             videoId |-> FALSE]]
    /\ UNCHANGED <<basevars, tvars, uvars, bvars, cvars, pvars>>

\* The storage upload returns: an error is thrown into the catch clause,
\* otherwise the video element is given its source.
UploadReturns(f, ok) ==
    /\ filePc[f] = "uploading"
    /\ IF ok
       THEN /\ filePc' = [filePc EXCEPT ![f] = "loading"]
            /\ UNCHANGED uploadingFiles
       ELSE /\ filePc' = [filePc EXCEPT ![f] = "ended"]
            /\ uploadingFiles' = [uploadingFiles EXCEPT ![f].status = "error"]
    /\ UNCHANGED <<basevars, tvars, uvars, bvars, cvars, pvars>>

\* video.onloadedmetadata up to its await.
MetadataLoaded(f) ==
    /\ filePc[f] = "loading"
    /\ filePc' = [filePc EXCEPT ![f] = "inserting"]
    /\ uploadingFiles' = [uploadingFiles EXCEPT ![f].progress = 50,
                                                ![f].status = "processing"]
    /\ UNCHANGED <<basevars, tvars, uvars, bvars, cvars, pvars>>

\* The metadata cannot be read: the element has no onerror handler.
MetadataFails(f) ==
    /\ filePc[f] = "loading"
    /\ filePc' = [filePc EXCEPT ![f] = "ended"]
    /\ UNCHANGED uploadingFiles
    /\ UNCHANGED <<basevars, tvars, uvars, bvars, cvars, pvars>>

\* The insert returns: an error is thrown inside the event handler, outside
\* the try block of onDrop.
InsertReturns(f, ok) ==
    /\ filePc[f] = "inserting"
    /\ filePc' = [filePc EXCEPT ![f] = "ended"]
    /\ IF ok
       THEN uploadingFiles' = [uploadingFiles EXCEPT ![f].progress = 100,
                                                     ![f].status = "complete",
                                                     ![f].videoId = TRUE]
       ELSE UNCHANGED uploadingFiles
    /\ UNCHANGED <<basevars, tvars, uvars, bvars, cvars, pvars>>

UploadNext ==
    \/ \E f \in Files : StartFile(f)
    \/ \E f \in Files, ok \in BOOLEAN : UploadReturns(f, ok)
    \/ \E f \in Files : MetadataLoaded(f)
    \/ \E f \in Files : MetadataFails(f)
    \/ \E f \in Files, ok \in BOOLEAN : InsertReturns(f, ok)

UploadSpecInit ==
    /\ BaseIdle
    /\ RoleIdle
    /\ GateIdle
    /\ TrackIdle
    /\ UrlIdle
    /\ ClipsIdle
    /\ UploadIdle

UploadSpec == UploadSpecInit /\ [][UploadNext]_vars

\* --------------------------------------- role functions, system_settings
\* auth.uid() is the caller; user_email names the target.  A raised
\* exception rolls the call back.
DbCalled(fn, caller, target, raised) ==
    dbCall' = [fn |-> fn, caller |-> caller, target |-> target,
               raised |-> raised]

\* promote_to_super_admin looks the target up and updates its profile; it
\* reads nothing about the caller.
promote_to_super_admin(caller, target) ==
    /\ dbProfiles' = [dbProfiles EXCEPT ![target] =
                         [role |-> "super_admin", is_active |-> TRUE]]
    /\ DbCalled("promote_to_super_admin", caller, target, FALSE)
    /\ UNCHANGED settingsWriters
    /\ UNCHANGED <<basevars, tvars, uvars, bvars, cvars, fvars>>

\* demote_from_admin raises unless the caller's profile has role super_admin
\* and the target is another account.
demote_from_admin(caller, target) ==
    /\ IF dbProfiles[caller].role # "super_admin" \/ target = caller
       THEN /\ DbCalled("demote_from_admin", caller, target, TRUE)
            /\ UNCHANGED dbProfiles
       ELSE /\ DbCalled("demote_from_admin", caller, target, FALSE)
            /\ dbProfiles' = [dbProfiles EXCEPT ![target].role = "user"]
    /\ UNCHANGED settingsWriters
    /\ UNCHANGED <<basevars, tvars, uvars, bvars, cvars, fvars>>

\* set_user_active_status raises unless the caller's profile has role admin
\* or super_admin.
set_user_active_status(caller, target, active_status) ==
    /\ IF dbProfiles[caller].role \notin {"admin", "super_admin"}
       THEN /\ DbCalled("set_user_active_status", caller, target, TRUE)
            /\ UNCHANGED dbProfiles
       ELSE /\ DbCalled("set_user_active_status", caller, target, FALSE)
            /\ dbProfiles' = [dbProfiles EXCEPT
                                 ![target].is_active = active_status]
    /\ UNCHANGED settingsWriters
    /\ UNCHANGED <<basevars, tvars, uvars, bvars, cvars, fvars>>

\* Policy "Super admin full access on system_settings": a write touches rows
\* only for a caller whose profile is an active super_admin.
SuperAdminFullAccess(caller) ==
    /\ dbProfiles[caller].role = "super_admin"
    /\ dbProfiles[caller].is_active

WriteSystemSettings(caller) ==
    /\ DbCalled("write_system_settings", caller, 0,
                ~SuperAdminFullAccess(caller))
    /\ settingsWriters' = IF SuperAdminFullAccess(caller)
                          THEN settingsWriters \cup {caller}
                          ELSE settingsWriters
    /\ UNCHANGED dbProfiles
    /\ UNCHANGED <<basevars, tvars, uvars, bvars, cvars, fvars>>

\* Account 1 is the super admin of the migration; the others are users or
\* admins, all active by the column default.
RoleInit ==
    /\ dbProfiles \in [Accounts -> [role : Roles, is_active : {TRUE}]]
    /\ \A a \in Accounts : dbProfiles[a].role = "super_admin" <=> a = 1
    /\ dbCall = NoCall
    /\ settingsWriters = {}

RoleNext ==
    \/ \E c \in Accounts, t \in Accounts : promote_to_super_admin(c, t)
    \/ \E c \in Accounts, t \in Accounts : demote_from_admin(c, t)
    \/ \E c \in Accounts, t \in Accounts, s \in BOOLEAN :
          set_user_active_status(c, t, s)
    \/ \E c \in Accounts : WriteSystemSettings(c)

RoleSpecInit ==
    /\ BaseIdle
    /\ GateIdle
    /\ TrackIdle
    /\ UrlIdle
    /\ ClipsIdle
    /\ UploadIdle
    /\ RoleInit

RoleSpec == RoleSpecInit /\ [][RoleNext]_vars

\* C12: a clip is marked ready with a file path only when the object of that
\* path is in the clips bucket: an export whose upload failed does not end as
\* a success.
C12_ReadyImpliesStored ==
    \A c \in ClipIds :
        (clips[c].status = "ready" /\ clips[c].file_path) => c \in stored

CreditsOwed ==
    Cardinality({j \in JobIds : jobs[j].status = "completed"})
        * ClipCount * CreditsPerSuggestion

\* C15: the ledger never holds more than one increment per completed job:
\* nothing is charged for a failed job or for a second delivery of a request.
C15_UsageOncePerSucceeded == credits <= CreditsOwed

\* C16: the insert into notifications changes no job and is followed by the
\* 200 response, whether it succeeds or fails.
C16_NotifyNeverFails ==
    [][\A r \in Requests :
          (apc[r] = "notifying" /\ apc'[r] # "notifying") =>
              (apc'[r] = "done200" /\ jobs' = jobs /\ credits' = credits)]_vars

C16_Witness ==
    \E r \in Requests, j \in JobIds :
        /\ apc[r] = "done200" /\ notified[r] = "failed"
        /\ jobs[j].status = "completed"

\* C17: the four supported ratios resolve to their dimensions, and a ratio
\* outside the table resolves to no dimensions at all.
C17_ResolveOrFail ==
    gstage # "input" =>
        \/ gratio = "16:9" /\ gdims = <<1920, 1080>>
        \/ gratio = "9:16" /\ gdims = <<1080, 1920>>
        \/ gratio = "1:1" /\ gdims = <<1080, 1080>>
        \/ gratio = "4:5" /\ gdims = <<1080, 1350>>
        \/ gratio \notin {"16:9", "9:16", "1:1", "4:5"} /\ gdims = NoDims

\* C18: for a supported ratio the output frame has the resolved size, and the
\* picture in it keeps the proportions of the source (to the rounding of one
\* pixel), touches the box on one axis, lies inside it and is centred.
C18_FitAndPad ==
    (gstage = "filtered" /\ gratio \in DOMAIN aspectRatios) =>
        /\ gpic.outW = aspectRatios[gratio][1]
        /\ gpic.outH = aspectRatios[gratio][2]
        /\ gpic.w <= gpic.outW /\ gpic.h <= gpic.outH
        /\ gpic.w = gpic.outW \/ gpic.h = gpic.outH
        /\ LET d == gpic.w * gsrc[2] - gpic.h * gsrc[1]
           IN  2 * (IF d < 0 THEN -d ELSE d) <= IF gsrc[1] > gsrc[2]
                                                 THEN gsrc[1] ELSE gsrc[2]
        /\ gpic.outW - gpic.w - 2 * gpic.x \in {0, 1}
        /\ gpic.outH - gpic.h - 2 * gpic.y \in {0, 1}

\* What C18 states, of the filter chain of export-clip alone.
ExportClipFitsAndPads == gimpl = "export-clip" => C18_FitAndPad

\* Milliseconds of an SRT time.
SrtMs(t) == ((t[1] * 60 + t[2]) * 60 + t[3]) * 1000 + t[4]

Clamp(x, lo, hi) == IF x < lo THEN lo ELSE IF x > hi THEN hi ELSE x

\* The words that overlap the window, in order.
Overlapping(words, window) ==
    SelectSeq(words, LAMBDA w : w[1] <= window[2] /\ w[2] >= window[1])

\* C19: with no captions there is no subtitles filter; with captions enabled
\* the file holds exactly the words that overlap the clip window, each at
\* its time relative to the start of the clip, clamped to the clip.
C19_CuesRelativeToClip ==
    srendered =>
        /\ ~captions.supplied => ~subtitles.filter
        /\ (captions.supplied /\ captions.enabled) =>
              LET kept == Overlapping(captions.words, swindow)
                  d == swindow[2] - swindow[1]
              IN  /\ Len(subtitles.cues) = Len(kept)
                  /\ \A i \in 1..Len(kept) :
                        /\ SrtMs(subtitles.cues[i][1]) =
                              Clamp(kept[i][1] - swindow[1], 0, d)
                        /\ SrtMs(subtitles.cues[i][2]) =
                              Clamp(kept[i][2] - swindow[1], 0, d)

\* The conditions under which the route may show its children.
MayShowChildren ==
    /\ ~loading
    /\ user /\ profile.exists /\ profile.is_active
    /\ profile.role \in (IF requireSuperAdmin THEN {"super_admin"}
                          ELSE {"admin", "super_admin"})

\* C20: a render returns the children only under those conditions, and once
\* loading has finished and the effect has run every other case redirects.
C20_ChildrenOnlyWhenAuthorised ==
    /\ view = "children" => MayShowChildren
    /\ (~loading /\ ~effectDue /\ ~MayShowChildren) => view = "redirect"

\* The second half of C20 alone: the settled cases.
SettledCasesRedirect ==
    (~loading /\ ~effectDue /\ ~MayShowChildren) => view = "redirect"

\* The tiers the feature matrix opens a feature to.
MatrixTiers(f) ==
    CASE f = "youtube_import" -> {"free", "pro", "business", "enterprise"}
      [] f \in {"ai_transcription", "ai_clip_detection",
                "social_media_export"} -> {"pro", "business", "enterprise"}
      [] f \in {"ai_captions", "batch_processing", "team_collaboration",
                "advanced_analytics"} -> {"business", "enterprise"}
      [] f \in {"custom_branding", "api_access"} -> {"enterprise"}

\* C21: the gate shows its children exactly when settings and profile are
\* loaded, the flag of the feature is on and the tier of the user (free when
\* none is set) is one the matrix opens the feature to.
C21_ChildrenIffEnabledAndTier ==
    gateView # "unrendered" =>
        (gateView = "children" <=>
            /\ gateSettings /\ gateFlag = "on"
            /\ gateProfile # "null"
            /\ (IF gateProfile = "unset" THEN "free" ELSE gateProfile)
                  \in MatrixTiers(gateFeature))

C21_Witness ==
    /\ gateView = "children"
    /\ gateFeature = "ai_captions" /\ gateProfile = "business"

\* The limit a usage counter is held against.
LimitKeyOf(counter) ==
    CASE counter = "videos_uploaded" -> "videos_per_month"
      [] counter = "ai_credits_used" -> "ai_credits_per_month"

\* C22: with settings, profile and usage loaded, a gate on a usage counter
\* shows its children exactly when the limit of the tier is -1 or the value
\* of the counter is below it.
C22_BlocksAtLimitOnly ==
    (/\ gateView # "unrendered"
     /\ gateLimitType \in {"videos_uploaded", "ai_credits_used"}
     /\ gateSettings /\ gateProfile # "null" /\ gateUsage # -1) =>
        LET limit == limits[IF gateProfile = "unset" THEN "free"
                            ELSE gateProfile][LimitKeyOf(gateLimitType)]
        IN  gateView = "children" <=> (limit = -1 \/ gateUsage < limit)

\* C23: for every user with videos inserted this month, the usage_tracking
\* row counts them, its storage_used is the sum of their sizes, and
\* profiles.storage_used has grown by the same sum.
C23_UsageMatchesInserts ==
    \A u \in Users :
        videosInserted[u] > 0 =>
            /\ usageRows[u].exists
            /\ usageRows[u].videos_uploaded = videosInserted[u]
            /\ usageRows[u].storage_used = bytesInserted[u]
            /\ profileStorage[u] = bytesInserted[u]

\* The parts of C23 the triggers do keep: the count and the profile total.
CountAndProfileMatchInserts ==
    \A u \in Users :
        videosInserted[u] > 0 =>
            /\ usageRows[u].exists
            /\ usageRows[u].videos_uploaded = videosInserted[u]
            /\ profileStorage[u] = bytesInserted[u]

\* A call that has read the database returns by the priority database,
\* environment, default; a call served from the cache gets a value fetched
\* less than five minutes before.
ResolvesByPriorityAndFreshCache ==
    [][\A c \in Callers :
          /\ (callPc[c] = "fetching" /\ callPc'[c] = "done") =>
                /\ callSource'[c] = "database" => callResult'[c] = dbUrl
                /\ callSource'[c] = "environment" =>
                      callResult'[c] = envUrl /\ envUrl # ""
                /\ callSource'[c] \in {"default", "empty"} => envUrl = ""
          /\ (callPc[c] = "idle" /\ callPc'[c] = "done") =>
                /\ callResult'[c] = cachedBackendUrl /\ cachedBackendUrl # ""
                /\ urlClock - lastFetchTime < CACHE_DURATION]_vars

\* C24: as above, and the first call to start after clearBackendUrlCache
\* reads the database.
C24_PriorityCacheAndClear ==
    [][\A c \in Callers :
          /\ (callPc[c] = "fetching" /\ callPc'[c] = "done") =>
                /\ callSource'[c] = "database" => callResult'[c] = dbUrl
                /\ callSource'[c] = "environment" =>
                      callResult'[c] = envUrl /\ envUrl # ""
                /\ callSource'[c] \in {"default", "empty"} => envUrl = ""
          /\ (callPc[c] = "idle" /\ callPc'[c] = "done") =>
                /\ callResult'[c] = cachedBackendUrl /\ cachedBackendUrl # ""
                /\ urlClock - lastFetchTime < CACHE_DURATION
          /\ (callPc[c] = "idle" /\ callPc'[c] # "idle" /\ cleared) =>
                callPc'[c] = "fetching"]_vars

\* The clips C25 lets through: inside the video, and in the duration window
\* of the caller, 15 and 60 standing in for an absent option only.
InWindow(clip) ==
    /\ 0 <= clip[1] /\ clip[1] < clip[2] /\ clip[2] <= analysisDuration
    /\ (IF optMin = -1 THEN 15 ELSE optMin) <= clip[2] - clip[1]
    /\ clip[2] - clip[1] <= (IF optMax = -1 THEN 60 ELSE optMax)

\* C25: analyzeForClips returns exactly the clips of the answer that are in
\* the window, in their order, each with its duration.
C25_ExactlyClipsInWindow ==
    analysed =>
        LET kept == SelectSeq(answer, InWindow)
        IN  validatedClips =
              [i \in 1..Len(kept) |->
                 [start_time |-> kept[i][1], end_time |-> kept[i][2],
                  duration |-> kept[i][2] - kept[i][1]]]

\* C25 for callers that pass no 0: with positive or absent options the
\* result is exactly the clips in the window.
ExactWhenOptionsNotZero ==
    (optMin # 0 /\ optMax # 0) => C25_ExactlyClipsInWindow

\* C26: a file onDrop has nothing left to do for is complete or in error,
\* never still uploading or processing, and a complete one has its videoId.
C26_EndsCompleteOrError ==
    \A f \in Files :
        /\ filePc[f] = "ended" =>
              uploadingFiles[f].status \in {"complete", "error"}
        /\ uploadingFiles[f].status = "complete" => uploadingFiles[f].videoId

\* The parts of C26 that hold: progress never decreases, complete implies a
\* stored row, and a failed storage upload ends in error.
ProgressGrowsAndCompleteIsStored ==
    [][\A f \in Files :
          /\ uploadingFiles'[f].progress >= uploadingFiles[f].progress
          /\ uploadingFiles'[f].status = "complete" =>
                uploadingFiles'[f].videoId
          /\ (filePc[f] = "uploading" /\ filePc'[f] = "ended") =>
                uploadingFiles'[f].status = "error"]_vars

\* C27: a profile gains role super_admin only in a call whose caller is an
\* active super_admin at the time of the call.
C27_SuperAdminOnlyBySuperAdmin ==
    [][\A a \in Accounts :
          (dbProfiles'[a].role = "super_admin"
              /\ dbProfiles[a].role # "super_admin") =>
             /\ dbProfiles[dbCall'.caller].role = "super_admin"
             /\ dbProfiles[dbCall'.caller].is_active]_vars

\* The part of C27 that holds: a write of system_settings goes through only
\* for a caller who is an active super_admin at the time of the write.
SettingsWrittenByActiveSuperAdmin ==
    [][\A a \in settingsWriters' \ settingsWriters :
          dbProfiles[a].role = "super_admin" /\ dbProfiles[a].is_active]_vars

\* C28: a call of set_user_active_status or demote_from_admin changes a
\* profile only when the caller's profile is active and has the role the
\* function requires.
C28_EffectOnlyForActiveCaller ==
    [][(dbProfiles' # dbProfiles
           /\ dbCall'.fn \in {"set_user_active_status", "demote_from_admin"}) =>
          /\ dbProfiles[dbCall'.caller].is_active
          /\ dbProfiles[dbCall'.caller].role \in
                IF dbCall'.fn = "demote_from_admin"
                THEN {"super_admin"}
                ELSE {"admin", "super_admin"}]_vars

\* The part of C28 that holds: the role requirement alone.
EffectOnlyForRequiredRole ==
    [][(dbProfiles' # dbProfiles
           /\ dbCall'.fn \in {"set_user_active_status", "demote_from_admin"}) =>
          dbProfiles[dbCall'.caller].role \in
             IF dbCall'.fn = "demote_from_admin"
             THEN {"super_admin"}
             ELSE {"admin", "super_admin"}]_vars

====
